---- MODULE Spec2Model ----
(***************************************************************************)
(* check_schema of model_assist/app.py: the static checks run over the     *)
(* statements that sqlglot's parse returns for a SQL text (naming          *)
(* convention, missing primary key, invalid foreign key), as a state       *)
(* machine that follows one call statement by statement.                   *)
(*                                                                         *)
(* A SQL text is identified with what parse makes of it: either parse      *)
(* raises, or it returns a list of statements.  A statement is a CREATE    *)
(* TABLE (its declared name, where its primary key is written, and its     *)
(* foreign keys in textual order) or a statement of another kind.          *)
(***************************************************************************)
EXTENDS Naturals, Sequences, FiniteSets

\* Longest statement list a text parses to.
MaxStmts == 2

\* Longest statement list of a text that is submitted twice.
MaxRepeatStmts == 1

----------------------------------------------------------------------------
(* Names and str.islower *)

LowerLetters == {"b"}
UpperLetters == {"B"}

\* Declared table names, as sequences of characters: a lowercase name, an
\* uppercase name, and a name with no cased character at all.
Names == { <<"b">>, <<"B">>, <<"_", "1">> }

\* A ForeignKey constraint in which find(exp.Reference) finds nothing.
NoRef == <<"?">>

\* Diagnostics that name no table.
NoTable == <<>>

\* str.islower(): at least one cased character, and no cased character
\* that is uppercase.
IsLower(s) ==
    /\ \E k \in 1..Len(s) : s[k] \in LowerLetters
    /\ \A k \in 1..Len(s) : s[k] \notin UpperLetters

----------------------------------------------------------------------------
(* Parsed statements *)

TFk(r) == [level |-> "table", ref |-> r]
CFk(r) == [level |-> "column", ref |-> r]

\* The foreign keys of one CREATE TABLE, in textual order.  A table-level
\* one is an element of expr.constraints; a column-level one sits in a
\* ColumnDef's constraints.
FkLists ==
    { <<>>,
      <<TFk(<<"b">>)>>,
      <<TFk(<<"B">>)>>,
      <<TFk(NoRef)>>,
      <<CFk(<<"B">>)>>,
      <<TFk(<<"B">>), TFk(<<"B">>)>>,
      <<TFk(<<"b">>), TFk(NoRef)>> }

\* Where the PRIMARY KEY of a CREATE TABLE is written: nowhere, as a
\* table-level constraint, or inline on a column.
PkForms == { [tpk |-> FALSE, cpk |-> FALSE],
             [tpk |-> TRUE,  cpk |-> FALSE],
             [tpk |-> FALSE, cpk |-> TRUE] }

CreateTables ==
    { [kind |-> "table", name |-> n, tpk |-> p.tpk, cpk |-> p.cpk, fks |-> f] :
        n \in Names, p \in PkForms, f \in FkLists }

\* A statement that is not a CREATE TABLE (CREATE INDEX, ...).
OtherStmt ==
    [kind |-> "other", name |-> NoTable, tpk |-> FALSE, cpk |-> FALSE, fks |-> <<>>]

Statements == CreateTables \cup {OtherStmt}

StmtLists == UNION { [1..n -> Statements] : n \in 0..MaxStmts }

\* The SQL texts: one that parse rejects, and one per statement list.
Texts ==
    { [raises |-> TRUE, stmts |-> <<>>] } \cup
    { [raises |-> FALSE, stmts |-> s] : s \in StmtLists }

\* isinstance(expr, exp.Create) and expr.kind == 'TABLE'
IsCreateTable(expr) == expr.kind = "table"

\* expr.constraints restricted to exp.ForeignKey: the table-level ones.
TableFks(expr) == SelectSeq(expr.fks, LAMBDA f : f.level = "table")

----------------------------------------------------------------------------
(* Diagnostics *)

Diag(t, tbl, m, r) == [type |-> t, table |-> tbl, msg |-> m, ref |-> r]

EmptyError      == Diag("error", NoTable, "empty_or_unparsed", NoTable)
ParsingError    == Diag("error", NoTable, "schema_parsing_error", NoTable)
Success         == Diag("success", NoTable, "all_passed", NoTable)
NamingWarning(n)  == Diag("warning", n, "naming", NoTable)
MissingPk(n)      == Diag("error", n, "missing_pk", NoTable)
InvalidFk(n, r)   == Diag("error", n, "invalid_fk", r)

----------------------------------------------------------------------------
(* State *)

\* The texts that are submitted once, each in a run of its own.
SingleWorkloads == { <<x>> : x \in Texts }

\* Texts that leave a report behind: one that parse rejects, and one that
\* draws a warning and two errors.
OtherTexts ==
    { [raises |-> TRUE, stmts |-> <<>>],
      [raises |-> FALSE,
       stmts |-> << [kind |-> "table", name |-> <<"B">>, tpk |-> FALSE,
                     cpk |-> FALSE, fks |-> <<TFk(<<"b">>)>>] >>] }

RepeatTexts == { x \in Texts : Len(x.stmts) <= MaxRepeatStmts }

\* A text submitted, then another text, then the first text again.
RepeatWorkloads == { <<x, y, x>> : x \in RepeatTexts, y \in OtherTexts }

\* The requests that reach check_schema, in order.
Workloads == SingleWorkloads \cup RepeatWorkloads

VARIABLES
    pending,  \* the texts still to be submitted, in order
    returned, \* history: the calls that returned, each with its text and its list
    pc,       \* where the call stands: idle, parse, pass1, pass2, compose, done
    sql,      \* the text of the call (sql_schema)
    i,        \* position of the running for loop in parsed_expressions
    tables,   \* the dict tables: name -> [pk]
    report,   \* the list report
    origin,   \* history: for each element of report, the loop position that appended it
    raised    \* history: the except branch ran in this call

vars == <<pending, returned, pc, sql, i, tables, report, origin, raised>>

EmptyDict == [n \in {} |-> [pk |-> FALSE]]

Init ==
    /\ pending \in Workloads
    /\ returned = <<>>
    /\ pc = "idle"
    /\ sql = [raises |-> FALSE, stmts |-> <<>>]
    /\ i = 0
    /\ tables = EmptyDict
    /\ report = <<>>
    /\ origin = <<>>
    /\ raised = FALSE

\* The list survives the call, as a module-level list would.
KeptReport == report

\* report = []  (line 47)
NewReport == <<>>

\* tables = {}  (line 54)
NewTables == EmptyDict

\* check_schema(sql_schema) is entered with the next text.
Call ==
    /\ pc = "idle"
    /\ pending # <<>>
    /\ sql' = Head(pending)
    /\ pending' = Tail(pending)
    /\ report' = NewReport
    /\ origin' = [j \in 1..Len(NewReport) |-> 0]
    /\ raised' = FALSE
    /\ pc' = "parse"
    /\ UNCHANGED <<returned, i, tables>>

\* parse(sql_schema), the empty-list return, tables = {}  (lines 49-54)
Parse ==
    /\ pc = "parse"
    /\ IF sql.raises
       THEN /\ report' = Append(report, ParsingError)
            /\ origin' = Append(origin, 0)
            /\ raised' = TRUE
            /\ pc' = "done"
            /\ UNCHANGED <<i, tables>>
       ELSE IF sql.stmts = <<>>
       THEN /\ report' = Append(report, EmptyError)
            /\ origin' = Append(origin, 0)
            /\ pc' = "done"
            /\ UNCHANGED <<i, tables, raised>>
       ELSE /\ tables' = NewTables
            /\ i' = 1
            /\ pc' = "pass1"
            /\ UNCHANGED <<report, origin, raised>>
    /\ UNCHANGED <<pending, returned, sql>>

\* Only the loop over expr.constraints is run.
Pass1FactsTableOnly(tbls, expr) ==
    [n \in DOMAIN tbls \cup {expr.name} |->
        IF n = expr.name THEN [pk |-> expr.tpk] ELSE tbls[n]]

\* A name that is already in tables keeps its entry instead of being reset.
Pass1FactsCarry(tbls, expr) ==
    [n \in DOMAIN tbls \cup {expr.name} |->
        IF n = expr.name
        THEN [pk |-> (expr.tpk \/ expr.cpk
                        \/ (n \in DOMAIN tbls /\ tbls[n].pk))]
        ELSE tbls[n]]

\* tables[table_name] = {'pk': False}, then the two primary-key loops.
Pass1Facts(tbls, expr) ==
    [n \in DOMAIN tbls \cup {expr.name} |->
        IF n = expr.name THEN [pk |-> (expr.tpk \/ expr.cpk)] ELSE tbls[n]]

\* if not table_name.islower(): report.append(warning)
Pass1Diags(expr) ==
    IF ~IsLower(expr.name) THEN <<NamingWarning(expr.name)>> ELSE <<>>

Stamp(diags, k) == [j \in 1..Len(diags) |-> k]

\* One iteration of the first for loop (lines 56-77).
Pass1Step ==
    /\ pc = "pass1"
    /\ i <= Len(sql.stmts)
    /\ LET expr == sql.stmts[i] IN
         IF IsCreateTable(expr)
         THEN /\ tables' = Pass1Facts(tables, expr)
              /\ report' = report \o Pass1Diags(expr)
              /\ origin' = origin \o Stamp(Pass1Diags(expr), i)
         ELSE UNCHANGED <<tables, report, origin>>
    /\ i' = i + 1
    /\ UNCHANGED <<pending, returned, pc, sql, raised>>

\* The first loop is exhausted; the second one starts (line 80).
Pass1End ==
    /\ pc = "pass1"
    /\ i > Len(sql.stmts)
    /\ pc' = "pass2"
    /\ i' = 1
    /\ UNCHANGED <<pending, returned, sql, tables, report, origin, raised>>

\* The foreign-key loop of one table (lines 93-101): the errors it appends
\* and whether constraint.find(exp.Reference).this raised on a None.
RECURSIVE FkLoop(_, _, _)
FkLoop(fks, name, tbls) ==
    IF fks = <<>> THEN [diags |-> <<>>, exc |-> FALSE]
    ELSE IF Head(fks).ref = NoRef THEN [diags |-> <<>>, exc |-> TRUE]
    ELSE LET rest == FkLoop(Tail(fks), name, tbls)
             here == IF Head(fks).ref \notin DOMAIN tbls
                     THEN <<InvalidFk(name, Head(fks).ref)>> ELSE <<>>
         IN [diags |-> here \o rest.diags, exc |-> rest.exc]

\* The statement is judged by its own primary key, not by the entry of
\* its name.
PkCheckOwn(expr, tbls) ==
    IF ~(expr.tpk \/ expr.cpk) THEN <<MissingPk(expr.name)>> ELSE <<>>

\* if not tables[table_name]['pk']: report.append(error)  (lines 85-90)
PkCheck(expr, tbls) ==
    IF ~tbls[expr.name].pk THEN <<MissingPk(expr.name)>> ELSE <<>>

\* The foreign-key loop is run before the primary-key check.
Pass2BodyFkFirst(expr, tbls) ==
    LET fk == FkLoop(TableFks(expr), expr.name, tbls)
    IN [diags |-> fk.diags \o PkCheck(expr, tbls), exc |-> fk.exc]

\* The body of the second loop for one CREATE TABLE (lines 82-101).
Pass2Body(expr, tbls) ==
    LET fk == FkLoop(TableFks(expr), expr.name, tbls)
    IN [diags |-> PkCheck(expr, tbls) \o fk.diags, exc |-> fk.exc]

\* One iteration of the second for loop; an exception leaves for the
\* except branch (lines 108-111), which appends to the same report.
Pass2Step ==
    /\ pc = "pass2"
    /\ i <= Len(sql.stmts)
    /\ LET expr == sql.stmts[i] IN
         IF IsCreateTable(expr)
         THEN LET b == Pass2Body(expr, tables) IN
              IF b.exc
              THEN /\ report' = (report \o b.diags) \o <<ParsingError>>
                   /\ origin' = (origin \o Stamp(b.diags, i)) \o <<0>>
                   /\ raised' = TRUE
                   /\ pc' = "done"
                   /\ i' = i
              ELSE /\ report' = report \o b.diags
                   /\ origin' = origin \o Stamp(b.diags, i)
                   /\ i' = i + 1
                   /\ UNCHANGED <<pc, raised>>
         ELSE /\ i' = i + 1
              /\ UNCHANGED <<pc, report, origin, raised>>
    /\ UNCHANGED <<pending, returned, sql, tables>>

Pass2End ==
    /\ pc = "pass2"
    /\ i > Len(sql.stmts)
    /\ pc' = "compose"
    /\ UNCHANGED <<pending, returned, sql, i, tables, report, origin, raised>>

\* The success diagnostic is appended whatever the report holds.
ComposedAlways(rep) == Append(rep, Success)

\* if not report: report.append(success)  (lines 103-104)
Composed(rep) == IF rep = <<>> THEN <<Success>> ELSE rep

Compose ==
    /\ pc = "compose"
    /\ report' = Composed(report)
    /\ origin' = IF report = <<>> THEN <<0>> ELSE origin
    /\ pc' = "done"
    /\ UNCHANGED <<pending, returned, sql, i, tables, raised>>

\* return report: the caller has the list, the next request may come.
Return ==
    /\ pc = "done"
    /\ pc' = "idle"
    /\ returned' = Append(returned, [text |-> sql, report |-> report])
    /\ UNCHANGED <<pending, sql, i, tables, report, origin, raised>>

Next ==
    \/ Call
    \/ Parse
    \/ Pass1Step
    \/ Pass1End
    \/ Pass2Step
    \/ Pass2End
    \/ Compose
    \/ Return

Spec == Init /\ [][Next]_vars

----------------------------------------------------------------------------
(* Vocabulary of the properties *)

Stmts == sql.stmts

\* Positions of the CREATE TABLE statements of the running call's text.
TableIdx == { k \in 1..Len(Stmts) : IsCreateTable(Stmts[k]) }

\* Names declared by some CREATE TABLE of the text.
Declared == { Stmts[k].name : k \in TableIdx }

DeclsOf(n) == { k \in TableIdx : Stmts[k].name = n }

\* The last CREATE TABLE of the text that declares n.
LastDecl(n) == CHOOSE k \in DeclsOf(n) : \A j \in DeclsOf(n) : j <= k

\* The statement has a PRIMARY KEY, table-level or inline.
HasPk(expr) == expr.tpk \/ expr.cpk

HasUpper(s) == \E k \in 1..Len(s) : s[k] \in UpperLetters

\* Positions of report appended while statement k was being processed.
From(k) == { j \in 1..Len(report) : origin[j] = k }

HasType(t) == \E j \in 1..Len(report) : report[j].type = t

\* parse returned a non-empty list: both loops are run.
Validated == ~sql.raises /\ Stmts # <<>>

\* The call went through both loops and the result composition and
\* stands at its return statement (line 106).
Completed == pc = "done" /\ Validated /\ ~raised

\* Foreign keys of statement k, of either level, that reference r.
FksTo(k, r) == { p \in 1..Len(Stmts[k].fks) : Stmts[k].fks[p].ref = r }

AllFkRefs(k) == { Stmts[k].fks[p].ref : p \in 1..Len(Stmts[k].fks) }

----------------------------------------------------------------------------
(* C1 *)

\* The text parsed to at least one CREATE TABLE, every CREATE TABLE has a
\* primary key, and every foreign key references a declared table.
C1_Pre ==
    /\ ~sql.raises
    /\ TableIdx # {}
    /\ \A k \in TableIdx : HasPk(Stmts[k]) /\ AllFkRefs(k) \subseteq Declared

\* C1 as stated: whenever every table has a primary key and every foreign
\* key references a table of the batch, the returned report is exactly the
\* one success diagnostic.
C1_Original == (pc = "done" /\ C1_Pre) => report = <<Success>>

\* C1 as amended: the same, for batches in which, in addition, every
\* declared name passes the code's lowercase test (str.islower: at least one
\* cased letter and no uppercase letter): the report is exactly <<Success>>.
C1_Amended ==
    (pc = "done" /\ C1_Pre /\ \A k \in TableIdx : IsLower(Stmts[k].name))
        => report = <<Success>>

C1_Witness ==
    /\ pc = "done" /\ C1_Pre
    /\ \A k \in TableIdx : IsLower(Stmts[k].name)
    /\ Len(Stmts) = 2 /\ TableIdx = {1, 2}
    /\ Stmts[1].cpk /\ Stmts[2].tpk
    /\ Stmts[1].fks # <<>>
    /\ report = <<Success>>

----------------------------------------------------------------------------
(* C2 *)

----------------------------------------------------------------------------
(* C3 *)

\* C3 as stated: when the first loop is exhausted, every CREATE TABLE whose
\* name contains an uppercase letter has drawn exactly one naming warning
\* carrying its name, and every CREATE TABLE whose name contains no
\* uppercase letter has drawn none.
C3_Claim ==
    (pc = "pass2" /\ i = 1) =>
        \A k \in TableIdx :
            Cardinality({ j \in From(k) : report[j] = NamingWarning(Stmts[k].name) })
                = IF HasUpper(Stmts[k].name) THEN 1 ELSE 0

----------------------------------------------------------------------------
(* C4 *)

MissingPkAt(k) == { j \in From(k) : report[j] = MissingPk(Stmts[k].name) }

----------------------------------------------------------------------------
(* C5 *)

\* C5 as stated: in a call that completes, every foreign key of a CREATE
\* TABLE, table-level or inline, whose referenced table is not declared in
\* the batch draws exactly one Invalid Foreign Key error naming the owning
\* table and the referenced table, and a foreign key whose referenced table
\* is declared anywhere in the batch draws none.
C5_Claim ==
    Completed =>
        \A k \in TableIdx : \A r \in Names :
            Cardinality({ j \in From(k) : report[j] = InvalidFk(Stmts[k].name, r) })
                = IF r \in Declared THEN 0 ELSE Cardinality(FksTo(k, r))

----------------------------------------------------------------------------
(* C6 *)

\* C6 as stated: when parse succeeds and the batch holds no CREATE TABLE,
\* the returned report is exactly the one error 'SQL schema is empty or
\* could not be parsed.'.
C6_Claim ==
    (pc = "done" /\ ~sql.raises /\ TableIdx = {}) => report = <<EmptyError>>

----------------------------------------------------------------------------
(* C7 *)

\* C7: at every moment the report holds no warning after an error; its
\* warnings and its errors each stand in the source order of the statements
\* that drew them and carry that statement's name; and among the errors of
\* one statement the Missing Primary Key error comes first.
C7_Order ==
    /\ \A j, k \in 1..Len(report) :
           (j < k /\ report[j].type = "error") => report[k].type # "warning"
    /\ \A j \in 1..Len(report) :
           origin[j] # 0 =>
               /\ origin[j] \in TableIdx
               /\ report[j].table = Stmts[origin[j]].name
               /\ report[j].type \in {"warning", "error"}
    /\ \A j \in 1..Len(report) :
           report[j].table # NoTable => origin[j] # 0
    /\ \A j, k \in 1..Len(report) :
           (j < k /\ origin[j] # 0 /\ origin[k] # 0) =>
               /\ (report[j].type = "warning" /\ report[k].type = "warning")
                      => origin[j] < origin[k]
               /\ (report[j].type = "error" /\ report[k].type = "error")
                      => /\ origin[j] <= origin[k]
                         /\ origin[j] = origin[k] => report[k].msg # "missing_pk"

\* Two tables, the second of which draws a warning, and the first of which
\* draws a Missing Primary Key error and then an Invalid Foreign Key error.
C7_Witness ==
    /\ Completed
    /\ Len(report) = 4
    /\ report[1].type = "warning" /\ origin[1] = 2
    /\ report[2].msg = "missing_pk" /\ origin[2] = 1
    /\ report[3].msg = "invalid_fk" /\ origin[3] = 1
    /\ report[4].type = "error" /\ origin[4] = 2

----------------------------------------------------------------------------
(* C8 *)

\* C8 as stated: a call in which an exception was raised returns exactly one
\* error diagnostic, the one wrapping the failure; nothing that the loops
\* appended stands beside it.
C8_Claim == (pc = "done" /\ raised) => report = <<ParsingError>>

----------------------------------------------------------------------------
(* C9 *)

\* C9: any two calls that were given the same text returned the same list,
\* whatever was called in between.
C9_SameTextSameReport ==
    \A j, k \in 1..Len(returned) :
        returned[j].text = returned[k].text
            => returned[j].report = returned[k].report

\* A text that draws two diagnostics or more was checked, then a different
\* text, then the first one again.
C9_Witness ==
    /\ Len(returned) = 3
    /\ returned[1].text = returned[3].text
    /\ returned[2].text # returned[1].text
    /\ Len(returned[1].report) >= 2
    /\ Len(returned[2].report) >= 2

----------------------------------------------------------------------------
(* C10 *)

\* The second loop has run the primary-key check of statement k: it is past
\* k, or it left for the except branch from within statement i.
Judged(k) ==
    IF pc = "pass2" THEN k < i
    ELSE IF raised THEN k <= i
    ELSE TRUE

MsgKinds ==
    { "naming", "missing_pk", "invalid_fk", "empty_or_unparsed",
      "schema_parsing_error", "all_passed" }

\* C10: once the first loop is exhausted, tables holds exactly one entry per
\* declared name, and its pk flag is that of the last CREATE TABLE of that
\* name; the second loop gives a CREATE TABLE a Missing Primary Key error
\* exactly when the entry of its name has pk false; and every diagnostic is
\* of one of the six kinds, none of which is about a duplicate name.
C10_LastDeclarationWins ==
    /\ (Validated /\ pc \in {"pass2", "compose", "done"}) =>
           /\ DOMAIN tables = Declared
           /\ \A n \in Declared : tables[n].pk = HasPk(Stmts[LastDecl(n)])
           /\ \A k \in TableIdx :
                  Judged(k) =>
                      (MissingPkAt(k) # {} <=> ~tables[Stmts[k].name].pk)
    /\ \A j \in 1..Len(report) : report[j].msg \in MsgKinds

\* The same name declared twice, with a primary key only the first time:
\* both statements draw the error.
C10_Witness ==
    /\ Completed
    /\ Len(Stmts) = 2 /\ TableIdx = {1, 2}
    /\ Stmts[1].name = Stmts[2].name
    /\ HasPk(Stmts[1]) /\ ~HasPk(Stmts[2])
    /\ MissingPkAt(1) # {} /\ MissingPkAt(2) # {}

====
